---- MODULE Spec2Model ----
(***************************************************************************)
(* The blind-chessboard command loop (UCI::ChessboardLoop) of              *)
(* src/sf_13/src/uci.cpp, with the notation codec (UCI::move,              *)
(* UCI::to_move), the position and go parsers and the history helpers.     *)
(*                                                                         *)
(* A std::string is a sequence of one-character strings, so substr,        *)
(* append and operator>> are modelled on the characters themselves.        *)
(* The rules engine (Position, MoveList<LEGAL>, do_move) is not part of    *)
(* the two source files; it is modelled as the ordinary rules of chess.    *)
(***************************************************************************)
EXTENDS Integers, Sequences, FiniteSets, TLC

(***************************************************************************)
(* Bounds of the model.                                                    *)
(***************************************************************************)
\* the move command is not issued once the structured history holds this many records
MaxMoves == 3
\* the same, for the runs that hold nothing but move commands
MaxPlies == 9
\* the longest move list handed to position() on its own
MaxTokens == 3
\* the most tokens after searchmoves on a go line handed to go() on its own
MaxSearchMoves == 2

(***************************************************************************)
(* Small helpers.                                                          *)
(***************************************************************************)
Abs(x) == IF x < 0 THEN -x ELSE x
Sgn(x) == IF x < 0 THEN -1 ELSE IF x > 0 THEN 1 ELSE 0
Max(x, y) == IF x < y THEN y ELSE x
Min(x, y) == IF x < y THEN x ELSE y

\* std::string::substr(pos, count) for pos <= size (count is clamped to the end)
substr(s, pos, count) == SubSeq(s, pos + 1, Min(Len(s), pos + count))

FileChars == <<"a", "b", "c", "d", "e", "f", "g", "h">>
RankChars == <<"1", "2", "3", "4", "5", "6", "7", "8">>

(***************************************************************************)
(* Squares and moves as the engine encodes them.                           *)
(***************************************************************************)
Squares == 0 .. 63
SQ_NONE == 64
file_of(s) == s % 8
rank_of(s) == s \div 8
make_square(f, r) == r * 8 + f

FILE_C == 2
FILE_G == 6

KNIGHT == 2
BISHOP == 3
ROOK == 4
QUEEN == 5

MOVE_NONE == 0
MOVE_NULL == 65

NORMAL == 0
PROMOTION == 16384
ENPASSANT == 32768
CASTLING == 49152

make_move(from, to) == from * 64 + to
make(T, from, to, pt) == T + (pt - KNIGHT) * 4096 + from * 64 + to
from_sq(m) == (m \div 64) % 64
to_sq(m) == m % 64
type_of(m) == m - (m % 16384)
promotion_type(m) == ((m \div 4096) % 4) + KNIGHT

(***************************************************************************)
(* The rules engine: positions, legality and do_move.                      *)
(***************************************************************************)
WhitePieces == {"P", "N", "B", "R", "Q", "K"}
BlackPieces == {"p", "n", "b", "r", "q", "k"}

color_of(pc) == IF pc \in WhitePieces THEN "w" ELSE IF pc \in BlackPieces THEN "b" ELSE "-"

\* the piece type, as the white piece letter
type_of_piece(pc) ==
  CASE pc \in {"P", "p"} -> "P"
    [] pc \in {"N", "n"} -> "N"
    [] pc \in {"B", "b"} -> "B"
    [] pc \in {"R", "r"} -> "R"
    [] pc \in {"Q", "q"} -> "Q"
    [] pc \in {"K", "k"} -> "K"
    [] OTHER -> "."

make_piece(c, t) ==
  IF c = "w" THEN t
  ELSE CASE t = "P" -> "p" [] t = "N" -> "n" [] t = "B" -> "b"
         [] t = "R" -> "r" [] t = "Q" -> "q" [] OTHER -> "k"

PromoPiece(pt) ==
  CASE pt = KNIGHT -> "N" [] pt = BISHOP -> "B" [] pt = ROOK -> "R" [] OTHER -> "Q"

Other(c) == IF c = "w" THEN "b" ELSE "w"
pawn_push(c) == IF c = "w" THEN 8 ELSE -8
relative_rank(c, s) == IF c = "w" THEN rank_of(s) ELSE 7 - rank_of(s)

BackRank == <<"R", "N", "B", "Q", "K", "B", "N", "R">>

\* the position pos.set(StartFEN, false, ...) builds
StartFEN ==
  [ board |-> [s \in Squares |->
                 CASE rank_of(s) = 0 -> BackRank[file_of(s) + 1]
                   [] rank_of(s) = 1 -> "P"
                   [] rank_of(s) = 6 -> "p"
                   [] rank_of(s) = 7 -> make_piece("b", BackRank[file_of(s) + 1])
                   [] OTHER -> "."],
    sideToMove |-> "w",
    castling |-> {"K", "Q", "k", "q"},
    epSquare |-> SQ_NONE ]

\* the squares strictly between two squares of one rank, file or diagonal
Between(a, b) ==
  LET df == file_of(b) - file_of(a)
      dr == rank_of(b) - rank_of(a)
      n  == Max(Abs(df), Abs(dr))
  IN  IF a /= b /\ (df = 0 \/ dr = 0 \/ Abs(df) = Abs(dr))
      THEN {make_square(file_of(a) + k * Sgn(df), rank_of(a) + k * Sgn(dr)) : k \in 1 .. n - 1}
      ELSE {}

\* the piece on s attacks t
attacks_from(board, s, t) ==
  LET k  == type_of_piece(board[s])
      df == file_of(t) - file_of(s)
      dr == rank_of(t) - rank_of(s)
      clear == \A q \in Between(s, t) : board[q] = "."
      line  == s /= t /\ (df = 0 \/ dr = 0) /\ clear
      diag  == s /= t /\ Abs(df) = Abs(dr) /\ clear
  IN  CASE k = "N" -> {Abs(df), Abs(dr)} = {1, 2}
        [] k = "K" -> Max(Abs(df), Abs(dr)) = 1
        [] k = "R" -> line
        [] k = "B" -> diag
        [] k = "Q" -> line \/ diag
        [] k = "P" -> Abs(df) = 1 /\ dr = (IF color_of(board[s]) = "w" THEN 1 ELSE -1)
        [] OTHER -> FALSE

attackers_to(board, t, c) ==
  \E s \in Squares : color_of(board[s]) = c /\ attacks_from(board, s, t)

king_square(board, c) == CHOOSE s \in Squares : board[s] = make_piece(c, "K")

\* the castling rights lost when a move touches square s
castlingRightsMask(s) ==
  CASE s = 4  -> {"K", "Q"}
    [] s = 7  -> {"K"}
    [] s = 0  -> {"Q"}
    [] s = 60 -> {"k", "q"}
    [] s = 63 -> {"k"}
    [] s = 56 -> {"q"}
    [] OTHER  -> {}

CastlingRight(from, to) ==
  IF to > from THEN (IF rank_of(from) = 0 THEN "K" ELSE "k")
               ELSE (IF rank_of(from) = 0 THEN "Q" ELSE "q")

do_move(pos, m) ==
  LET from == from_sq(m)
      to   == to_sq(m)
      T    == type_of(m)
      us   == pos.sideToMove
      them == Other(us)
      b    == pos.board
      pc   == b[from]
      kto  == make_square(IF to > from THEN FILE_G ELSE FILE_C, rank_of(from))
      rto  == make_square(IF to > from THEN 5 ELSE 3, rank_of(from))
      nb   == CASE T = CASTLING ->
                     [s \in Squares |->
                        IF s = kto THEN pc
                        ELSE IF s = rto THEN b[to]
                        ELSE IF s = from \/ s = to THEN "." ELSE b[s]]
                [] T = ENPASSANT ->
                     [s \in Squares |->
                        IF s = to THEN pc
                        ELSE IF s = from \/ s = to - pawn_push(us) THEN "." ELSE b[s]]
                [] T = PROMOTION ->
                     [s \in Squares |->
                        IF s = to THEN make_piece(us, PromoPiece(promotion_type(m)))
                        ELSE IF s = from THEN "." ELSE b[s]]
                [] OTHER ->
                     [s \in Squares |->
                        IF s = to THEN pc ELSE IF s = from THEN "." ELSE b[s]]
      dbl  == type_of_piece(pc) = "P" /\ Abs(to - from) = 16
      mid  == from + pawn_push(us)
      ep   == IF dbl /\ \E s \in Squares : /\ b[s] = make_piece(them, "P")
                                          /\ attacks_from(b, s, mid)
              THEN mid ELSE SQ_NONE
  IN  [ board |-> nb,
        sideToMove |-> them,
        castling |-> pos.castling \ (castlingRightsMask(from) \cup castlingRightsMask(to)),
        epSquare |-> ep ]

\* m obeys the movement rules of its piece in pos (king safety aside)
pseudo_legal(pos, m) ==
  LET from == from_sq(m)
      to   == to_sq(m)
      T    == type_of(m)
      us   == pos.sideToMove
      them == Other(us)
      b    == pos.board
      pc   == b[from]
      k    == type_of_piece(pc)
      up   == pawn_push(us)
      push1 == to = from + up /\ b[to] = "."
      push2 == /\ relative_rank(us, from) = 1
               /\ to = from + 2 * up
               /\ b[from + up] = "." /\ b[to] = "."
      capt  == attacks_from(b, from, to) /\ color_of(b[to]) = them
  IN  /\ from /= to
      /\ color_of(pc) = us
      /\ CASE T = NORMAL ->
                /\ promotion_type(m) = KNIGHT
                /\ IF k = "P"
                   THEN /\ relative_rank(us, to) /= 7
                        /\ (push1 \/ push2 \/ capt)
                   ELSE attacks_from(b, from, to) /\ color_of(b[to]) /= us
           [] T = PROMOTION ->
                k = "P" /\ relative_rank(us, to) = 7 /\ (push1 \/ capt)
           [] T = ENPASSANT ->
                /\ promotion_type(m) = KNIGHT
                /\ k = "P" /\ to = pos.epSquare /\ attacks_from(b, from, to)
           [] OTHER ->
                /\ promotion_type(m) = KNIGHT
                /\ k = "K"
                /\ from = make_square(4, IF us = "w" THEN 0 ELSE 7)
                /\ to \in {make_square(0, rank_of(from)), make_square(7, rank_of(from))}
                /\ b[to] = make_piece(us, "R")
                /\ CastlingRight(from, to) \in pos.castling
                /\ \A q \in Between(from, to) : b[q] = "."
                /\ ~attackers_to(b, from, them)
                /\ \A q \in Between(from, make_square(IF to > from THEN 7 ELSE 1, rank_of(from))) :
                      ~attackers_to(b, q, them)

\* m is a member of MoveList<LEGAL>(pos)
legal(pos, m) ==
  /\ pseudo_legal(pos, m)
  /\ LET nb == do_move(pos, m).board
     IN  ~attackers_to(nb, king_square(nb, pos.sideToMove), Other(pos.sideToMove))

is_chess960(pos) == FALSE

(***************************************************************************)
(* Characters: the printable ASCII table, for toupper, tolower, isdigit    *)
(* and character arithmetic.                                               *)
(***************************************************************************)
Ascii == <<" ", "!", "\"", "#", "$", "%", "&", "'", "(", ")", "*", "+", ",", "-", ".", "/", "0", "1", "2", "3", "4", "5", "6", "7", "8", "9", ":", ";", "<", "=", ">", "?", "@", "A", "B", "C", "D", "E", "F", "G", "H", "I", "J", "K", "L", "M", "N", "O", "P", "Q", "R", "S", "T", "U", "V", "W", "X", "Y", "Z", "[", "\\", "]", "^", "_", "BACKQUOTE", "a", "b", "c", "d", "e", "f", "g", "h", "i", "j", "k", "l", "m", "n", "o", "p", "q", "r", "s", "t", "u", "v", "w", "x", "y", "z", "{", "|", "}", "~">>

\* the character code of c (a tab is the only non-printable character used; the
\* backquote is written out, it never occurs in a command)
Ord(c) == IF c = "\t" THEN 9 ELSE 31 + CHOOSE i \in 1 .. Len(Ascii) : Ascii[i] = c
Chr(n) == Ascii[n - 31]
Spaces == {" ", "\t"}
Digits == {"0", "1", "2", "3", "4", "5", "6", "7", "8", "9"}
isspace(c) == c \in Spaces
isdigit(c) == c \in Digits
tolower(c) == IF Ord(c) >= Ord("A") /\ Ord(c) <= Ord("Z") THEN Chr(Ord(c) + 32) ELSE c
toupper(c) == IF Ord(c) >= Ord("a") /\ Ord(c) <= Ord("z") THEN Chr(Ord(c) - 32) ELSE c

(***************************************************************************)
(* std::istringstream: the characters not yet read.                        *)
(***************************************************************************)
\* the length of the longest prefix of s whose characters are all in S (in = TRUE)
\* or all outside S (in = FALSE)
PrefixLen(s, S, in) ==
  LET stop == {i \in 1 .. Len(s) : (s[i] \in S) /= in}
  IN  IF stop = {} THEN Len(s) ELSE (CHOOSE i \in stop : \A j \in stop : i <= j) - 1

Drop(s, n) == SubSeq(s, n + 1, Len(s))

\* is >> token: skips white space, then reads up to the next white space;
\* ok is false (and the token empty) when nothing is left to read
ExtractFrom(body, n) == [token |-> SubSeq(body, 1, n), rest |-> Drop(body, n), ok |-> n > 0]
ExtractSkipped(body) == ExtractFrom(body, PrefixLen(body, Spaces, FALSE))
Extract(is) == ExtractSkipped(Drop(is, PrefixLen(is, Spaces, TRUE)))

RECURSIVE DigitsValue(_)
DigitsValue(ds) ==
  IF ds = <<>> THEN 0
  ELSE 10 * DigitsValue(SubSeq(ds, 1, Len(ds) - 1)) + (Ord(ds[Len(ds)]) - Ord("0"))

\* is >> n for an int n: skips white space, reads an optional sign and the digits
\* after it; without a digit the value is 0 and the stream fails, so that nothing
\* more can be read from it
ExtractDigits(neg, num, n) ==
  IF n = 0 THEN [val |-> 0, rest |-> <<>>, ok |-> FALSE]
  ELSE [val |-> IF neg THEN -DigitsValue(SubSeq(num, 1, n)) ELSE DigitsValue(SubSeq(num, 1, n)),
        rest |-> Drop(num, n), ok |-> TRUE]
ExtractSigned(body) ==
  IF body /= <<>> /\ body[1] \in {"+", "-"}
  THEN ExtractDigits(body[1] = "-", Drop(body, 1), PrefixLen(Drop(body, 1), Digits, TRUE))
  ELSE ExtractDigits(FALSE, body, PrefixLen(body, Digits, TRUE))
ExtractInt(is) == ExtractSigned(Drop(is, PrefixLen(is, Spaces, TRUE)))

(***************************************************************************)
(* The notation codec.                                                     *)
(***************************************************************************)
\* UCI::square
square(s) == <<Chr(Ord("a") + file_of(s)), Chr(Ord("1") + rank_of(s))>>

PromoChars == <<" ", "p", "n", "b", "r", "q", "k">>

\* UCI::move
move(m, chess960) ==
  LET from == from_sq(m)
      to0  == to_sq(m)
      to   == IF type_of(m) = CASTLING /\ ~chess960
              THEN make_square(IF to0 > from THEN FILE_G ELSE FILE_C, rank_of(from))
              ELSE to0
      text == square(from) \o square(to)
  IN  IF m = MOVE_NONE THEN <<"(", "n", "o", "n", "e", ")">>
      ELSE IF m = MOVE_NULL THEN <<"0", "0", "0", "0">>
      ELSE IF type_of(m) = PROMOTION
           THEN Append(text, PromoChars[promotion_type(m) + 1])
           ELSE text

\* the square a two-character text names, SQ_NONE when it names none
SquareNamed(s, i) ==
  IF /\ Len(s) >= i + 1
     /\ Ord(s[i]) >= Ord("a") /\ Ord(s[i]) <= Ord("h")
     /\ Ord(s[i + 1]) >= Ord("1") /\ Ord(s[i + 1]) <= Ord("8")
  THEN make_square(Ord(s[i]) - Ord("a"), Ord(s[i + 1]) - Ord("1"))
  ELSE SQ_NONE

\* the moves UCI::move can print as str: every other move of MoveList<LEGAL>(pos)
\* fails the comparison of UCI::to_move whatever pos is
MovesFromTo(from, to) ==
  IF from = SQ_NONE \/ to = SQ_NONE THEN {}
  ELSE {make(NORMAL, from, to, KNIGHT), make(ENPASSANT, from, to, KNIGHT)}
       \cup {make(PROMOTION, from, to, pt) : pt \in KNIGHT .. QUEEN}
       \cup {make(CASTLING, from, make_square(f, rank_of(from)), KNIGHT) : f \in {0, 7}}
MovesPrintedAs(str) == MovesFromTo(SquareNamed(str, 1), SquareNamed(str, 3))

\* the string UCI::to_move compares: a fifth character is lowercased in place
Lowered(str) == IF Len(str) = 5 THEN [str EXCEPT ![5] = tolower(str[5])] ELSE str

\* UCI::to_move
FirstOf(hits) == IF hits = {} THEN MOVE_NONE ELSE CHOOSE m \in hits : TRUE
Matching(pos, s) == {m \in MovesPrintedAs(s) : legal(pos, m) /\ move(m, is_chess960(pos)) = s}
\* UCI::to_move scanning the moves printed as str, legal or not
to_move_any(pos, str) == FirstOf({m \in MovesPrintedAs(Lowered(str)) : move(m, is_chess960(pos)) = Lowered(str)})

to_move(pos, str) == FirstOf(Matching(pos, Lowered(str)))

(***************************************************************************)
(* The words the parsers compare tokens with.                              *)
(***************************************************************************)
W_startpos == <<"s", "t", "a", "r", "t", "p", "o", "s">>
W_fen == <<"f", "e", "n">>
W_moves == <<"m", "o", "v", "e", "s">>
W_searchmoves == <<"s", "e", "a", "r", "c", "h", "m", "o", "v", "e", "s">>
W_wtime == <<"w", "t", "i", "m", "e">>
W_btime == <<"b", "t", "i", "m", "e">>
W_winc == <<"w", "i", "n", "c">>
W_binc == <<"b", "i", "n", "c">>
W_movestogo == <<"m", "o", "v", "e", "s", "t", "o", "g", "o">>
W_depth == <<"d", "e", "p", "t", "h">>
W_nodes == <<"n", "o", "d", "e", "s">>
W_movetime == <<"m", "o", "v", "e", "t", "i", "m", "e">>
W_mate == <<"m", "a", "t", "e">>
W_perft == <<"p", "e", "r", "f", "t">>
W_infinite == <<"i", "n", "f", "i", "n", "i", "t", "e">>
W_ponder == <<"p", "o", "n", "d", "e", "r">>
W_quit == <<"q", "u", "i", "t">>
W_stop == <<"s", "t", "o", "p">>
W_printposition == <<"p", "r", "i", "n", "t", "p", "o", "s", "i", "t", "i", "o", "n">>
W_move == <<"m", "o", "v", "e">>
W_bestmove == <<"b", "e", "s", "t", "m", "o", "v", "e">>
W_removelastmove == <<"r", "e", "m", "o", "v", "e", "l", "a", "s", "t", "m", "o", "v", "e">>
W_getpieceraise == <<"g", "e", "t", "p", "i", "e", "c", "e", "r", "a", "i", "s", "e">>
W_getPGN == <<"g", "e", "t", "P", "G", "N">>
W_go == <<"g", "o">>

(***************************************************************************)
(* position(): sets up the start position and makes the moves of the list. *)
(***************************************************************************)
\* the move list loop: asked lists the tokens handed to UCI::to_move, states is
\* the size of the StateInfo list (one entry, and one more for every move made)
RECURSIVE parse_moves(_, _, _, _)
\* the move list loop going on to the next token after one that is no legal move
parse_made_skip(p, t, m, asked, states) ==
  IF m = MOVE_NONE THEN parse_moves(p, t.rest, Append(asked, t.token), states)
  ELSE parse_moves(do_move(p, m), t.rest, Append(asked, t.token), states + 1)

parse_made(p, t, m, asked, states) ==
  IF m = MOVE_NONE THEN [pos |-> p, asked |-> Append(asked, t.token), states |-> states]
  ELSE parse_moves(do_move(p, m), t.rest, Append(asked, t.token), states + 1)
parse_token(p, t, asked, states) ==
  IF ~t.ok THEN [pos |-> p, asked |-> asked, states |-> states]
  ELSE parse_made(p, t, to_move(p, t.token), asked, states)
parse_moves(p, is, asked, states) == parse_token(p, Extract(is), asked, states)

\* position(pos, is, states). The fen branch needs Position::set on a FEN other
\* than StartFEN; ChessboardLoop never takes it, since PGN_command starts with
\* "startpos", so it is left as the position it was given.
position_token(p, t1) ==
  IF t1.token = W_startpos THEN parse_moves(StartFEN, Extract(t1.rest).rest, <<>>, 1)
  ELSE [pos |-> p, asked |-> <<>>, states |-> 1]
position(p, is) == position_token(p, Extract(is))

(***************************************************************************)
(* go(): the search limits of a go command.                                *)
(***************************************************************************)
\* Search::LimitsType as its constructor leaves it
LimitsType ==
  [ time_WHITE |-> 0, time_BLACK |-> 0, inc_WHITE |-> 0, inc_BLACK |-> 0,
    movestogo |-> 0, depth |-> 0, nodes |-> 0, movetime |-> 0, mate |-> 0,
    perft |-> 0, infinite |-> 0, searchmoves |-> <<>> ]

\* the options that read a number, with the field each one sets
IntOptions ==
  { <<W_wtime, "time_WHITE">>, <<W_btime, "time_BLACK">>, <<W_winc, "inc_WHITE">>,
    <<W_binc, "inc_BLACK">>, <<W_movestogo, "movestogo">>, <<W_depth, "depth">>,
    <<W_nodes, "nodes">>, <<W_movetime, "movetime">>, <<W_mate, "mate">>,
    <<W_perft, "perft">> }

RECURSIVE searchmoves_loop(_, _, _)
\* the searchmoves loop ending at the first token that is no legal move
searchmoves_token_stop(p, t, list) ==
  IF ~t.ok \/ to_move(p, t.token) = MOVE_NONE THEN list
  ELSE searchmoves_loop(p, t.rest, Append(list, to_move(p, t.token)))

searchmoves_token(p, t, list) ==
  IF ~t.ok THEN list
  ELSE searchmoves_loop(p, t.rest, Append(list, to_move(p, t.token)))
searchmoves_loop(p, is, list) == searchmoves_token(p, Extract(is), list)

RECURSIVE go_loop(_, _, _, _)
go_number(p, field, v, limits, ponderMode) ==
  go_loop(p, v.rest, [limits EXCEPT ![field] = v.val], ponderMode)
go_token(p, t, limits, ponderMode) ==
  IF ~t.ok THEN [rootPos |-> p, limits |-> limits, ponderMode |-> ponderMode]
  ELSE IF t.token = W_searchmoves
    THEN [rootPos |-> p,
          limits |-> [limits EXCEPT !.searchmoves =
                        searchmoves_loop(p, t.rest, limits.searchmoves)],
          ponderMode |-> ponderMode]
  ELSE IF \E o \in IntOptions : o[1] = t.token
    THEN go_number(p, (CHOOSE o \in IntOptions : o[1] = t.token)[2],
                   ExtractInt(t.rest), limits, ponderMode)
  ELSE IF t.token = W_infinite
    THEN go_loop(p, t.rest, [limits EXCEPT !.infinite = 1], ponderMode)
  ELSE IF t.token = W_ponder
    THEN go_loop(p, t.rest, limits, TRUE)
  ELSE go_loop(p, t.rest, limits, ponderMode)
go_loop(p, is, limits, ponderMode) == go_token(p, Extract(is), limits, ponderMode)

\* go(pos, is, states): what it hands to Threads.start_thinking
go(p, is) == go_loop(p, is, LimitsType, FALSE)

(***************************************************************************)
(* The helpers of the blind chessboard.                                    *)
(***************************************************************************)
\* a - b on size_t: the difference wraps when b exceeds a.  The wrapped value is
\* only ever compared with, or clamped to, a string's length, so any value above
\* every length behaves as 2^64 - (b - a) does; 2^31 - (b - a) is used
size_sub(a, b) == IF a >= b THEN a - b ELSE 2147483647 - (b - a) + 1

\* std::string::substr(pos, count) throws when pos exceeds the size
substr_throws(s, pos) == pos > Len(s)

\* stoi of a one-character string throws unless the character is a digit
stoi_throws(s) == s = <<>> \/ ~isdigit(s[1])
stoi(s) == DigitsValue(SubSeq(s, 1, PrefixLen(s, Digits, TRUE)))

\* moveToNumber without the - 1 on the rank
moveToNumber_rank0(themove) ==
  LET secondsquare == substr(themove, 2, 2)
      index == Ord(toupper(secondsquare[1])) - Ord("A")
  IN  index + 8 * stoi(substr(secondsquare, 1, 1))

moveToNumber(themove) ==
  LET secondsquare == substr(themove, 2, 2)
      index == Ord(toupper(secondsquare[1])) - Ord("A")
  IN  index + 8 * (stoi(substr(secondsquare, 1, 1)) - 1)

\* the eight rows of the grid, rank 8 first, each a row of eight cells
printPieceRaising(thesquare) ==
  [i \in 1 .. 8 |->
     [j \in 1 .. 8 |->
        IF /\ <<RankChars[9 - i]>> = substr(thesquare, 1, 1)
           /\ <<FileChars[j]>> = substr(thesquare, 0, 1)
        THEN "#" ELSE " "]]

\* decToBinary printing the array in the order it was filled
RECURSIVE decToBinary_filled(_)
decToBinary_filled(n) ==
  IF n > 0 THEN <<Chr(Ord("0") + (n % 2))>> \o decToBinary_filled(n \div 2) ELSE <<>>

RECURSIVE decToBinary(_)
decToBinary(n) ==
  IF n > 0 THEN Append(decToBinary(n \div 2), Chr(Ord("0") + (n % 2))) ELSE <<>>

\* removeLastMove with the separator left out of the record width
removeLastMove_four(PGN0, PGN_command0) ==
  [ PGN |-> substr(PGN0, 0, size_sub(Len(PGN0), 4)),
    PGN_command |-> substr(PGN_command0, 0, size_sub(Len(PGN_command0), 4)) ]

\* removeLastMove shortening the flat log alone
removeLastMove_log(PGN0, PGN_command0) ==
  [ PGN |-> substr(PGN0, 0, size_sub(Len(PGN0), 5)),
    PGN_command |-> PGN_command0 ]

removeLastMove(PGN0, PGN_command0) ==
  [ PGN |-> substr(PGN0, 0, size_sub(Len(PGN0), 5)),
    PGN_command |-> substr(PGN_command0, 0, size_sub(Len(PGN_command0), 5)) ]

getLastMove(PGN0) == substr(PGN0, size_sub(Len(PGN0), 5), 4)

\* getLastMovedSquare returning the square the piece was moved from
getLastMovedSquare_from(PGN0) == substr(substr(PGN0, size_sub(Len(PGN0), 5), 4), 0, 2)

getLastMovedSquare(PGN0) == substr(substr(PGN0, size_sub(Len(PGN0), 5), 4), 2, 2)

\* what pieceRaisingOutput cannot do without an exception or a read outside a container
pieceRaisingThrows(PGN0, PGN_vec0) ==
  /\ Len(PGN0) /= 0
  /\ \/ PGN_vec0 = <<>>
     \/ substr_throws(PGN0, size_sub(Len(PGN0), 5))
     \/ substr_throws(getLastMove(PGN0), 2)
     \/ getLastMovedSquare(PGN0) = <<>>
     \/ stoi_throws(substr(getLastMovedSquare(PGN0), 1, 1))
     \/ substr_throws(PGN_vec0[Len(PGN_vec0)], 2)
     \/ substr_throws(substr(PGN_vec0[Len(PGN_vec0)], 2, 2), 1)

NoRaise == [text |-> "", lastMove |-> <<>>, square |-> <<>>, decimal |-> 0,
            binary |-> <<>>, grid |-> <<>>]

\* pieceRaisingOutput: what it prints
pieceRaisingOutput(PGN0, PGN_vec0) ==
  IF Len(PGN0) = 0 THEN [NoRaise EXCEPT !.text = "No pieces raised"]
  ELSE [ text |-> "Last Move",
         lastMove |-> PGN_vec0[Len(PGN_vec0)],
         square |-> getLastMovedSquare(PGN0),
         decimal |-> moveToNumber(getLastMove(PGN0)),
         binary |-> decToBinary(moveToNumber(getLastMove(PGN0))),
         grid |-> printPieceRaising(substr(PGN_vec0[Len(PGN_vec0)], 2, 2)) ]

(***************************************************************************)
(* The inputs: move texts, command lines and argument vectors.             *)
(***************************************************************************)
T_h2h4 == <<"h", "2", "h", "4">>
T_g7g5 == <<"g", "7", "g", "5">>
T_h4g5 == <<"h", "4", "g", "5">>
T_h7h6 == <<"h", "7", "h", "6">>
T_g5h6 == <<"g", "5", "h", "6">>
T_a7a6 == <<"a", "7", "a", "6">>
T_h6h7 == <<"h", "6", "h", "7">>
T_a6a5 == <<"a", "6", "a", "5">>
T_h7g8 == <<"h", "7", "g", "8">>
T_h7g8q == <<"h", "7", "g", "8", "q">>
T_e2e5 == <<"e", "2", "e", "5">>
T_h2 == <<"h", "2">>
T_e2e4 == <<"e", "2", "e", "4">>

SP == <<" ">>
MoveLine(t) == W_move \o SP \o t

\* the lines standard input can hold
Lines ==
  { W_quit, W_stop, W_printposition, W_bestmove, W_removelastmove,
    W_getpieceraise, W_getPGN, <<>>, <<" ", "\t">>, <<"u", "c", "i">>,
    W_move, MoveLine(T_h2), MoveLine(T_h7g8q), MoveLine(T_e2e5),
    MoveLine(T_h2h4), W_move \o SP \o SP \o T_g7g5 \o SP, MoveLine(T_h4g5) }

\* a game that ends in a promotion, and two texts that are never legal in it
GameLines ==
  { MoveLine(T_h2h4), MoveLine(T_g7g5), MoveLine(T_h4g5), MoveLine(T_h7h6),
    MoveLine(T_g5h6), MoveLine(T_a7a6), MoveLine(T_h6h7), MoveLine(T_a6a5),
    MoveLine(T_h7g8q), MoveLine(T_h7g8), MoveLine(T_e2e5) }

\* the process arguments after argv[0]; none is the interactive mode
ArgVectors ==
  { <<>>, <<W_bestmove>>, <<W_move, T_h2h4>>, <<W_move, T_e2e5>>, <<W_quit>>,
    <<W_getpieceraise>> }

(***************************************************************************)
(* The state of UCI::ChessboardLoop.                                       *)
(***************************************************************************)
VARIABLES
  argc,          \* the number of process arguments, argv[0] included
  cmd,           \* the line being processed
  token,         \* its first token
  pos,           \* the session board
  PGN,           \* the flat move log
  PGN_vec,       \* the structured history
  PGN_command,   \* the replay buffer
  pc,            \* "read": at the top of the do loop; "done": the loop has ended;
                 \* "abort": an exception or an out-of-range read ended the process
  cout,          \* what the last command printed
  Threads_stop,  \* Threads.stop
  search,        \* the search Threads.start_thinking was last asked for
  h0,            \* history variable: the three histories before the last command
  asked,         \* history variable: the texts the last command handed to UCI::to_move
  inflight,      \* history variable: a search was running when the last command was read
  prior,         \* history variable: when the command before the last one was an
                 \* accepted move, the three histories before that move
  direct,        \* history variable: the moves commands only, applied directly
  call           \* a helper function applied on its own: its argument and, once
                 \* it has returned, its result; NoCall while the loop runs

vars == <<argc, cmd, token, pos, PGN, PGN_vec, PGN_command, pc, cout,
          Threads_stop, search, h0, asked, inflight, prior, direct, call>>

Hist == [PGN |-> PGN, PGN_command |-> PGN_command, PGN_vec |-> PGN_vec]

Silent == [text |-> "", board |-> <<>>, listing |-> <<>>, raise |-> <<>>, echo |-> <<>>]

\* the "PGN vector: " line: the records, numbered from 1
Listing(vec) == [i \in 1 .. Len(vec) |-> <<i, vec[i]>>]

NoSearch == [active |-> FALSE, started |-> FALSE, rootPos |-> StartFEN,
             limits |-> LimitsType, ponderMode |-> FALSE]

RECURSIVE JoinArgs(_)
JoinArgs(argv) == IF argv = <<>> THEN <<>> ELSE Head(argv) \o SP \o JoinArgs(Tail(argv))

NoCall == [fn |-> "", arg |-> <<>>, ret |-> <<>>]

\* the locals of UCI::ChessboardLoop when the do loop is entered
Setup ==
  \E argv \in ArgVectors :
    /\ argc = Len(argv) + 1
    /\ cmd = JoinArgs(argv)
    /\ token = <<>>
    /\ pos = StartFEN
    /\ PGN = <<>>
    /\ PGN_vec = <<>>
    /\ PGN_command = W_startpos \o SP \o W_moves \o SP
    /\ pc = "read"
    /\ cout = Silent
    /\ Threads_stop = FALSE
    /\ search = NoSearch
    /\ h0 = [PGN |-> <<>>, PGN_command |-> W_startpos \o SP \o W_moves \o SP, PGN_vec |-> <<>>]
    /\ asked = <<>>
    /\ inflight = FALSE
    /\ prior = <<>>
    /\ direct = [pure |-> TRUE, pos |-> StartFEN, texts |-> <<>>]

Init == Setup /\ call = NoCall

(***************************************************************************)
(* One pass of the do loop: the line is read (or is the joined arguments), *)
(* its first token extracted, the branch run, and the loop condition       *)
(* tested.  A command c is the line with the stream after its first token. *)
(***************************************************************************)
Tokenize(lines) == {[line |-> l, is |-> Extract(l)] : l \in lines}
StdIn == Tokenize(Lines)
GameIn == Tokenize(GameLines)

\* the lines a pass can process: standard input, or the joined arguments
Input(stdin) == IF argc = 1 THEN stdin ELSE Tokenize({cmd})

\* the legal moves of p that UCI::move prints as t
LegalNamed(p, t) == {m \in MovesPrintedAs(t) : legal(p, m) /\ move(m, FALSE) = t}

\* the direct board follows the run while every command is the move of a legal move
DirectMove(t, named) ==
  IF named /= {}
  THEN [pure |-> TRUE, pos |-> do_move(direct.pos, CHOOSE m \in named : TRUE),
        texts |-> Append(direct.texts, t)]
  ELSE [pure |-> FALSE, pos |-> StartFEN, texts |-> <<>>]
DirectText(t) == DirectMove(t, LegalNamed(direct.pos, t))
Direct(c) ==
  IF direct.pure /\ c.is.token = W_move THEN DirectText(Extract(c.is.rest).token)
  ELSE [pure |-> FALSE, pos |-> StartFEN, texts |-> <<>>]

\* the while condition, were stop to end the loop as quit does
LoopAgain_stop(tok) == tok \notin {W_quit, W_stop} /\ argc = 1

\* the while condition without the test argc == 1
LoopAgain_always(tok) == tok /= W_quit

\* the while condition of the do loop
LoopAgain(tok) == tok /= W_quit /\ argc = 1

\* what every pass does whatever the branch; threw: the branch ended the process
Pass(c, threw) ==
  /\ pc = "read"
  /\ cmd' = c.line
  /\ token' = c.is.token
  /\ pc' = IF threw THEN "abort" ELSE IF LoopAgain(c.is.token) THEN "read" ELSE "done"
  /\ h0' = Hist
  /\ inflight' = search.active
  /\ prior' = IF token = W_move /\ cout.board /= <<>> THEN <<h0>> ELSE <<>>
  /\ direct' = Direct(c)
  /\ UNCHANGED <<argc, call>>

Quit(c) ==
  /\ c.is.token \in {W_quit, W_stop}
  /\ Pass(c, FALSE)
  /\ Threads_stop' = TRUE
  /\ cout' = Silent
  /\ asked' = <<>>
  /\ UNCHANGED <<pos, PGN, PGN_vec, PGN_command, search>>

\* getline fails: cmd = "quit"
EndOfInput == \E c \in Tokenize({W_quit}) : argc = 1 /\ Quit(c)

\* the printposition branch printing pos without position(pos, is_2, states)
Printed_stale(c, r) ==
  /\ Pass(c, FALSE)
  /\ cout' = [Silent EXCEPT !.board = <<pos>>]
  /\ asked' = <<>>
  /\ UNCHANGED <<pos, PGN, PGN_vec, PGN_command, Threads_stop, search>>

Printed(c, r) ==
  /\ Pass(c, FALSE)
  /\ pos' = r.pos
  /\ asked' = r.asked
  /\ cout' = [Silent EXCEPT !.board = <<r.pos>>]
  /\ UNCHANGED <<PGN, PGN_vec, PGN_command, Threads_stop, search>>

PrintPosition(c) ==
  /\ c.is.token = W_printposition
  /\ Printed(c, position(pos, PGN_command))

\* themove.size() != 4
MoveInvalid(c) ==
  /\ Pass(c, FALSE)
  /\ cout' = [Silent EXCEPT !.text = "Invalid move format"]
  /\ asked' = <<>>
  /\ UNCHANGED <<pos, PGN, PGN_vec, PGN_command>>

\* the illegal-move branch without removeLastMove(PGN, PGN_command)
MoveIllegal_norollback(c, themove, PGN_vec1, r) ==
  /\ Pass(c, FALSE)
  /\ cout' = [Silent EXCEPT !.text = "Not a legal move"]
  /\ PGN' = PGN \o themove \o SP
  /\ PGN_command' = PGN_command \o themove \o SP
  /\ PGN_vec' = PGN_vec1
  /\ asked' = <<themove>>
  /\ UNCHANGED pos

\* PGN_vec_size == int(PGN_vec.size()); r is what removeLastMove leaves
MoveIllegal(c, themove, PGN_vec1, r) ==
  /\ Pass(c, FALSE)
  /\ cout' = [Silent EXCEPT !.text = "Not a legal move"]
  /\ PGN' = r.PGN
  /\ PGN_command' = r.PGN_command
  /\ PGN_vec' = PGN_vec1
  /\ asked' = <<themove>>
  /\ UNCHANGED pos

\* the move is a legal move; r is what position() made of the replay buffer
MoveLegal(c, themove, PGN1, PGN_command1, PGN_vec1, r, threw) ==
  /\ Pass(c, threw)
  /\ PGN' = PGN1
  /\ PGN_command' = PGN_command1
  /\ PGN_vec' = PGN_vec1
  /\ pos' = r.pos
  /\ asked' = <<themove>> \o r.asked
  /\ cout' = [Silent EXCEPT
                !.board = <<r.pos>>,
                !.listing = <<Listing(PGN_vec1)>>,
                !.raise = IF threw THEN <<>> ELSE <<pieceRaisingOutput(PGN1, PGN_vec1)>>]

MoveAppended(c, themove, PGN1, PGN_command1, PGN_vec1) ==
  IF Len(PGN_vec) = Len(PGN_vec1)
  THEN MoveIllegal(c, themove, PGN_vec1, removeLastMove(PGN1, PGN_command1))
  ELSE MoveLegal(c, themove, PGN1, PGN_command1, PGN_vec1,
                 position(pos, PGN_command1), pieceRaisingThrows(PGN1, PGN_vec1))

\* the move branch without PGN.append(" ")
MoveChecked_nosep(c, themove, text) ==
  MoveAppended(c, themove, PGN \o themove, PGN_command \o themove \o SP,
               IF text /= move(MOVE_NONE, FALSE) /\ text /= move(MOVE_NULL, FALSE)
               THEN Append(PGN_vec, text) ELSE PGN_vec)

\* the move branch recording the destination square alone
MoveChecked_dest(c, themove, text) ==
  MoveAppended(c, themove, PGN \o themove \o SP, PGN_command \o themove \o SP,
               IF text /= move(MOVE_NONE, FALSE) /\ text /= move(MOVE_NULL, FALSE)
               THEN Append(PGN_vec, SubSeq(text, 3, 4)) ELSE PGN_vec)

\* text is UCI::move(UCI::to_move(pos, themove), false)
MoveChecked(c, themove, text) ==
  MoveAppended(c, themove, PGN \o themove \o SP, PGN_command \o themove \o SP,
               IF text /= move(MOVE_NONE, FALSE) /\ text /= move(MOVE_NULL, FALSE)
               THEN Append(PGN_vec, text) ELSE PGN_vec)

\* the move branch with the length test themove.size() < 4
MoveRead_short(c, themove) ==
  IF Len(themove) < 4 THEN MoveInvalid(c)
  ELSE MoveChecked(c, themove, move(to_move(pos, themove), FALSE))

\* the move branch with the length test letting 5 characters through
MoveRead_five(c, themove) ==
  IF Len(themove) \notin {4, 5} THEN MoveInvalid(c)
  ELSE MoveChecked(c, themove, move(to_move(pos, themove), FALSE))

MoveRead(c, themove) ==
  IF Len(themove) /= 4 THEN MoveInvalid(c)
  ELSE MoveChecked(c, themove, move(to_move(pos, themove), FALSE))

Move(c, cap) ==
  /\ c.is.token = W_move
  /\ Len(PGN_vec) < cap
  /\ MoveRead(c, Extract(c.is.rest).token)
  /\ UNCHANGED <<Threads_stop, search>>

\* Threads.start_thinking: the search runs on its own copy of the position, and
\* the call returns once the threads are started
start_thinking(g) ==
  /\ search' = [active |-> TRUE, started |-> TRUE, rootPos |-> g.rootPos,
                limits |-> g.limits, ponderMode |-> g.ponderMode]
  /\ Threads_stop' = FALSE

\* the bestmove branch with Threads.main()->wait_for_search_finished() after go()
BestMove_wait(c) ==
  /\ c.is.token = W_bestmove
  /\ Pass(c, FALSE)
  /\ search' = [active |-> FALSE, started |-> TRUE, rootPos |-> pos,
                limits |-> go(pos, W_go \o SP \o W_depth \o SP \o <<"2", "2">>).limits,
                ponderMode |-> FALSE]
  /\ Threads_stop' = FALSE
  /\ cout' = Silent
  /\ asked' = <<>>
  /\ UNCHANGED <<pos, PGN, PGN_vec, PGN_command>>

BestMove(c) ==
  /\ c.is.token = W_bestmove
  /\ Pass(c, FALSE)
  /\ start_thinking(go(pos, W_go \o SP \o W_depth \o SP \o <<"2", "2">>))
  /\ cout' = Silent
  /\ asked' = <<>>
  /\ UNCHANGED <<pos, PGN, PGN_vec, PGN_command>>

\* the removelastmove branch without PGN_vec.pop_back()
Removed_keep(c, r) ==
  /\ Pass(c, FALSE)
  /\ PGN' = r.PGN
  /\ PGN_command' = r.PGN_command
  /\ PGN_vec' = PGN_vec
  /\ cout' = Silent
  /\ asked' = <<>>
  /\ UNCHANGED <<pos, Threads_stop, search>>

Removed(c, r) ==
  /\ Pass(c, FALSE)
  /\ PGN' = r.PGN
  /\ PGN_command' = r.PGN_command
  /\ PGN_vec' = IF Len(PGN_vec) > 0 THEN SubSeq(PGN_vec, 1, Len(PGN_vec) - 1) ELSE PGN_vec
  /\ cout' = Silent
  /\ asked' = <<>>
  /\ UNCHANGED <<pos, Threads_stop, search>>

\* the removelastmove branch without the test PGN.size() != 0
RemoveLastMove_unguarded(c) ==
  /\ c.is.token = W_removelastmove
  /\ Removed(c, removeLastMove(PGN, PGN_command))

RemoveLastMove(c) ==
  /\ c.is.token = W_removelastmove
  /\ Removed(c, IF Len(PGN) /= 0 THEN removeLastMove(PGN, PGN_command)
                ELSE [PGN |-> PGN, PGN_command |-> PGN_command])

Raised(c, threw) ==
  /\ Pass(c, threw)
  /\ cout' = [Silent EXCEPT !.raise = IF threw THEN <<>>
                                      ELSE <<pieceRaisingOutput(PGN, PGN_vec)>>]
  /\ asked' = <<>>
  /\ UNCHANGED <<pos, PGN, PGN_vec, PGN_command, Threads_stop, search>>

GetPieceRaise(c) ==
  /\ c.is.token = W_getpieceraise
  /\ Raised(c, pieceRaisingThrows(PGN, PGN_vec))

GetPGN(c) ==
  /\ c.is.token = W_getPGN
  /\ Pass(c, FALSE)
  /\ cout' = [Silent EXCEPT !.listing = <<Listing(PGN_vec)>>]
  /\ asked' = <<>>
  /\ UNCHANGED <<pos, PGN, PGN_vec, PGN_command, Threads_stop, search>>

Commands ==
  { W_quit, W_stop, W_printposition, W_move, W_bestmove, W_removelastmove,
    W_getpieceraise, W_getPGN }

\* the unknown-command branch echoing the token in place of the line
Unknown_token(c) ==
  /\ c.is.token \notin Commands
  /\ Pass(c, FALSE)
  /\ cout' = [Silent EXCEPT !.text = "Unknown command", !.echo = c.is.token]
  /\ asked' = <<>>
  /\ UNCHANGED <<pos, PGN, PGN_vec, PGN_command, Threads_stop, search>>

Unknown(c) ==
  /\ c.is.token \notin Commands
  /\ Pass(c, FALSE)
  /\ cout' = [Silent EXCEPT !.text = "Unknown command", !.echo = c.line]
  /\ asked' = <<>>
  /\ UNCHANGED <<pos, PGN, PGN_vec, PGN_command, Threads_stop, search>>

\* the search threads finish the search they were given
SearchFinished ==
  /\ search.active
  /\ search' = [search EXCEPT !.active = FALSE]
  /\ UNCHANGED <<argc, cmd, token, pos, PGN, PGN_vec, PGN_command, pc, cout,
                 Threads_stop, h0, asked, inflight, prior, direct, call>>

Next ==
  \/ \E c \in Input(StdIn) : Quit(c)
  \/ EndOfInput
  \/ \E c \in Input(StdIn) : PrintPosition(c)
  \/ \E c \in Input(StdIn) : Move(c, MaxMoves)
  \/ \E c \in Input(StdIn) : BestMove(c)
  \/ \E c \in Input(StdIn) : RemoveLastMove(c)
  \/ \E c \in Input(StdIn) : GetPieceRaise(c)
  \/ \E c \in Input(StdIn) : GetPGN(c)
  \/ \E c \in Input(StdIn) : Unknown(c)
  \/ SearchFinished

Spec == Init /\ [][Next]_vars

\* the runs of a fresh session that hold nothing but move commands
GameNext == \E c \in Input(GameIn) : Move(c, MaxPlies)

GameSpec == Init /\ [][GameNext]_vars

(***************************************************************************)
(* The helper functions applied on their own, to every argument of a       *)
(* bounded set.                                                            *)
(***************************************************************************)
Session == <<argc, cmd, token, pos, PGN, PGN_vec, PGN_command, pc, cout,
             Threads_stop, search, h0, asked, inflight, prior, direct>>

\* the 64 squares in algebraic notation
SquareTexts == {<<FileChars[f], RankChars[r]>> : f \in 1 .. 8, r \in 1 .. 8}

\* the squares a move text can start with
FromTexts == {<<"a", "1">>, <<"e", "2">>, <<"h", "8">>}

\* moveToNumber(themove) for a move to each of the 64 squares
NumberInit ==
  /\ Setup
  /\ \E from \in FromTexts, to \in SquareTexts :
       call = [fn |-> "moveToNumber", arg |-> from \o to, ret |-> <<>>]

NumberNext ==
  /\ call.fn = "moveToNumber"
  /\ call.ret = <<>>
  /\ call' = [call EXCEPT !.ret = <<moveToNumber(call.arg)>>]
  /\ UNCHANGED Session

NumberSpec == NumberInit /\ [][NumberNext]_vars

\* the tokens of a move list, and the move lists of at most MaxTokens tokens
ListTokens == {T_h2h4, T_g7g5, T_h4g5, T_e2e5}
TokenLists == UNION {[1 .. n -> ListTokens] : n \in 0 .. MaxTokens}

\* the boards position() can be handed: the initial one, and the one after h2h4
GivenBoards == {StartFEN, do_move(StartFEN, to_move(StartFEN, T_h2h4))}

\* position(pos, is, states) for the line startpos moves t1 ... tn
PositionInit ==
  /\ Setup
  /\ \E p \in GivenBoards, ts \in TokenLists :
       call = [fn |-> "position",
               arg |-> [pos |-> p, is |-> JoinArgs(<<W_startpos, W_moves>> \o ts)],
               ret |-> <<>>]

PositionNext ==
  /\ call.fn = "position"
  /\ call.ret = <<>>
  /\ call' = [call EXCEPT !.ret = <<position(call.arg.pos, call.arg.is).pos>>]
  /\ UNCHANGED Session

PositionSpec == PositionInit /\ [][PositionNext]_vars

\* the boards UCI::to_move is handed: the initial one, one where White can
\* castle on the king side, and one where the pawn on h7 can promote on g8
T_e1g1 == <<"e", "1", "g", "1">>
T_e1h1 == <<"e", "1", "h", "1">>
ToMoveBoards ==
  { StartFEN,
    position(StartFEN, JoinArgs(<<W_startpos, W_moves, T_e2e4, <<"e", "7", "e", "5">>,
                                  <<"g", "1", "f", "3">>, <<"b", "8", "c", "6">>,
                                  <<"f", "1", "c", "4">>, <<"f", "8", "c", "5">>>>)).pos,
    position(StartFEN, JoinArgs(<<W_startpos, W_moves, T_h2h4, T_g7g5, T_h4g5, T_h7h6,
                                  T_g5h6, T_a7a6, T_h6h7, T_a6a5>>)).pos }

\* the texts it is handed
ToMoveTexts ==
  { T_h2h4, T_e2e5, T_h7g8, T_h7g8q, <<"h", "7", "g", "8", "Q">>, T_e1g1, T_e1h1,
    <<"0", "0", "0", "0">>, <<>> }

\* UCI::to_move(pos, str)
ToMoveInit ==
  /\ Setup
  /\ \E p \in ToMoveBoards, str \in ToMoveTexts :
       call = [fn |-> "to_move", arg |-> [pos |-> p, str |-> str], ret |-> <<>>]

ToMoveNext ==
  /\ call.fn = "to_move"
  /\ call.ret = <<>>
  /\ call' = [call EXCEPT !.ret = <<to_move(call.arg.pos, call.arg.str)>>]
  /\ UNCHANGED Session

ToMoveSpec == ToMoveInit /\ [][ToMoveNext]_vars

\* decToBinary(n) for the number of each of the 64 squares
BinaryInit ==
  /\ Setup
  /\ \E n \in 0 .. 63 : call = [fn |-> "decToBinary", arg |-> n, ret |-> <<>>]

BinaryNext ==
  /\ call.fn = "decToBinary"
  /\ call.ret = <<>>
  /\ call' = [call EXCEPT !.ret = <<decToBinary(call.arg)>>]
  /\ UNCHANGED Session

BinarySpec == BinaryInit /\ [][BinaryNext]_vars

\* the go lines: options and words that are no option, then, on some lines,
\* searchmoves and at most MaxSearchMoves tokens
U_foo == <<"f", "o", "o">>
U_bar == <<"b", "a", "r">>
GoOptions ==
  { <<>>, <<W_go>>, <<W_depth, <<"5">>>>, <<U_foo, W_depth, <<"5">>, U_bar>>,
    <<W_infinite, U_foo>> }
GoMoveTokens == {T_h2h4, T_e2e5, W_depth, W_infinite, <<"7">>}
GoMoveLists == UNION {[1 .. n -> GoMoveTokens] : n \in 0 .. MaxSearchMoves}
GoLines ==
  {JoinArgs(o) : o \in GoOptions}
  \cup {JoinArgs(o \o <<W_searchmoves>> \o l) : o \in GoOptions, l \in GoMoveLists}

\* go(pos, is, states) on the initial position
GoInit ==
  /\ Setup
  /\ \E is \in GoLines :
       call = [fn |-> "go", arg |-> [pos |-> StartFEN, is |-> is], ret |-> <<>>]

GoNext ==
  /\ call.fn = "go"
  /\ call.ret = <<>>
  /\ call' = [call EXCEPT !.ret = <<go(call.arg.pos, call.arg.is)>>]
  /\ UNCHANGED Session

GoSpec == GoInit /\ [][GoNext]_vars

(***************************************************************************)
(* The claims.                                                             *)
(***************************************************************************)
\* the argument of a move command line
Arg(line) == Extract(Extract(line).rest).token

\* a step that is a pass of the loop (every other step is the search finishing)
IsPass == ~(search.active /\ ~search'.active)

\* the last command was a move that was accepted
Accepted == token = W_move /\ cout.board /= <<>>

SetupPrefix == W_startpos \o SP \o W_moves \o SP

\* C1: a move command whose 4-character text names no legal move of the session
\* board reports "Not a legal move" and leaves the flat log, the replay buffer and
\* the structured history equal to their values before the command.
C1_IllegalMoveRolledBack ==
  [][ (IsPass /\ token' = W_move /\ Len(Arg(cmd')) = 4 /\ LegalNamed(pos, Arg(cmd')) = {})
      => (cout'.text = "Not a legal move" /\ Hist' = Hist /\ pos' = pos) ]_vars

C1_Witness ==
  /\ cout.text = "Not a legal move"
  /\ asked = <<T_e2e5>>
  /\ Len(PGN_vec) = 2
  /\ Hist = h0

\* C2: a move command whose text is not exactly 4 characters long reports
\* "Invalid move format", hands nothing to the rules engine and leaves the three
\* histories as they were.
C2_BadLengthIgnored ==
  [][ (IsPass /\ token' = W_move /\ Len(Arg(cmd')) /= 4)
      => (cout'.text = "Invalid move format" /\ asked' = <<>> /\ Hist' = Hist) ]_vars

C2_Witness ==
  /\ cout.text = "Invalid move format"
  /\ Arg(cmd) = T_h7g8q
  /\ Len(PGN_vec) = 2
  /\ Hist = h0

\* C3: the replay buffer always replays in full from the initial position: every
\* move text in it is legal where the texts before it lead, so position() makes
\* one move for each record of the buffer.
C3_BufferReplays ==
  /\ Len(position(pos, PGN_command).asked) = position(pos, PGN_command).states - 1
  /\ Len(PGN_command) = Len(SetupPrefix) + 5 * Len(position(pos, PGN_command).asked)

\* C4: removelastmove right after an accepted move gives the three histories the
\* values they had before that move, and getPGN lists the structured history.
C4_UndoRestores ==
  /\ (token = W_removelastmove /\ prior /= <<>>) => Hist = prior[1]
  /\ token = W_getPGN => cout.listing = <<Listing(PGN_vec)>>

C4_Witness ==
  /\ token = W_removelastmove
  /\ prior /= <<>>
  /\ Len(PGN_vec) = 1
  /\ Hist = prior[1]

\* C5: while every command of a fresh session is the move of a move that is legal
\* on the board the earlier ones lead to, every one is accepted, and the session
\* board is that board, which is also what the replay buffer replays to.
C5_MovesFollowDirectBoard ==
  direct.pure =>
    /\ PGN_vec = direct.texts
    /\ pos = direct.pos
    /\ position(pos, PGN_command).pos = direct.pos

C8_BestMoveSearchesHistory ==
  token = W_bestmove =>
    /\ search.rootPos = position(pos, PGN_command).pos
    /\ search.limits = [LimitsType EXCEPT !.depth = 22]
    /\ Hist = h0

\* C9: removelastmove on an empty history changes nothing: the flat log and the
\* structured history stay empty and the replay buffer stays the setup prefix; on
\* a history that is not empty it removes the trailing record of each of the three.
C9_RemoveLastMove ==
  [][ (IsPass /\ token' = W_removelastmove)
      => /\ pc' /= "abort"
         /\ IF PGN = <<>>
            THEN PGN' = <<>> /\ PGN_vec' = <<>> /\ PGN_command' = SetupPrefix
            ELSE /\ PGN' = SubSeq(PGN, 1, Len(PGN) - 5)
                 /\ PGN_command' = SubSeq(PGN_command, 1, Len(PGN_command) - 5)
                 /\ PGN_vec /= <<>>
                 /\ PGN_vec' = SubSeq(PGN_vec, 1, Len(PGN_vec) - 1) ]_vars

C9_Witness ==
  /\ token = W_removelastmove
  /\ prior = <<>>
  /\ h0.PGN = <<>>
  /\ Hist = h0
  /\ pc = "read"

\* the flat log is a row of records of 4 characters that are not blank and a space
Records(log) ==
  /\ Len(log) % 5 = 0
  /\ \A i \in 1 .. Len(log) : (log[i] = " ") = (i % 5 = 0)
  /\ \A i \in 1 .. Len(log) : log[i] /= "\t"

\* C10: the flat log always is a whole number of 5-character records, each 4
\* characters that are not blank and one space; an accepted move appends one
\* record, a removelastmove on a log that is not empty removes the last one.
C10_FlatLogRecords ==
  /\ Records(PGN)
  /\ Accepted => (PGN = h0.PGN \o Arg(cmd) \o SP /\ Len(Arg(cmd)) = 4)
  /\ (token = W_removelastmove /\ h0.PGN /= <<>>)
       => (Len(h0.PGN) = Len(PGN) + 5 /\ PGN = SubSeq(h0.PGN, 1, Len(PGN)))

C10_Witness ==
  /\ Accepted
  /\ Len(PGN) = 15
  /\ Arg(cmd) = T_h4g5

\* C11: printposition, getpieceraise and getPGN leave the flat log, the replay
\* buffer and the structured history as they were before the command, and
\* printposition prints the board that replaying the replay buffer from the
\* initial position gives.
C11_QueriesKeepHistories ==
  /\ token \in {W_printposition, W_getpieceraise, W_getPGN} => Hist = h0
  /\ token = W_printposition =>
       cout.board = <<position(StartFEN, h0.PGN_command).pos>>

\* printposition with one move recorded: the board printed is the replayed one,
\* with one move made
C11_Witness ==
  /\ token = W_printposition
  /\ Len(PGN_vec) = 1
  /\ Hist = h0
  /\ cout.board = <<position(StartFEN, PGN_command).pos>>
  /\ cout.board /= <<StartFEN>>

\* the index file + 8*(rank-1) of the square a two-character text names
FileOffset(ch) == (CHOOSE i \in 1 .. 8 : FileChars[i] = ch) - 1
RankNumber(ch) == CHOOSE i \in 1 .. 8 : RankChars[i] = ch
SquareIndex(sq) == FileOffset(sq[1]) + 8 * (RankNumber(sq[2]) - 1)

\* C12: getpieceraise, and the piece-raise output after an accepted move, says
\* "No pieces raised" exactly when the history is empty; otherwise it gives the
\* destination square of the most recent move of the history and that square's
\* index file + 8*(rank-1).  For a history holding e2e4 alone it gives e4 and 28.
C12_PieceRaiseReport ==
  /\ (token = W_getpieceraise \/ Accepted) =>
       /\ cout.raise /= <<>>
       /\ (cout.raise[1].text = "No pieces raised") = (PGN_vec = <<>>)
       /\ (PGN_vec = <<>>) = (PGN = <<>>)
       /\ PGN_vec /= <<>> =>
            /\ cout.raise[1].square = SubSeq(PGN_vec[Len(PGN_vec)], 3, 4)
            /\ cout.raise[1].decimal = SquareIndex(cout.raise[1].square)
  /\ pieceRaisingOutput(T_e2e4 \o SP, <<T_e2e4>>).square = <<"e", "4">>
  /\ pieceRaisingOutput(T_e2e4 \o SP, <<T_e2e4>>).decimal = 28

\* getpieceraise with h2h4 and g7g5 recorded: square g5, index 38
C12_Witness ==
  /\ token = W_getpieceraise
  /\ PGN_vec = <<T_h2h4, T_g7g5>>
  /\ cout.raise /= <<>>
  /\ cout.raise[1].square = <<"g", "5">>
  /\ cout.raise[1].decimal = 38

\* C13: moveToNumber maps the destination square of a move to
\* file offset + 8*(rank-1); over the 64 squares a1..h8 it is a bijection onto
\* 0..63, with a1 -> 0, h8 -> 63 and e2 -> 12, so no destination square gives a
\* number outside 0..63.
C13_SquareIndexBijection ==
  /\ call.ret /= <<>> =>
       /\ call.ret[1] = SquareIndex(SubSeq(call.arg, 3, 4))
       /\ call.ret[1] \in 0 .. 63
  /\ Cardinality(SquareTexts) = 64
  /\ {moveToNumber(<<"a", "1">> \o to) : to \in SquareTexts} = 0 .. 63
  /\ moveToNumber(<<"e", "2", "a", "1">>) = 0
  /\ moveToNumber(<<"a", "1", "h", "8">>) = 63
  /\ moveToNumber(<<"a", "1", "e", "2">>) = 12

\* moveToNumber has returned 63 for a move from e2 to h8
C13_Witness == call.arg = <<"e", "2", "h", "8">> /\ call.ret = <<63>>

\* the white-space separated words of a line
RECURSIVE Words(_)
WordsAfter(t) == IF t.ok THEN <<t.token>> \o Words(t.rest) ELSE <<>>
Words(is) == WordsAfter(Extract(is))

\* C14: with process arguments, the line processed is the arguments joined with
\* spaces; the one pass of the loop processes that line, not a line of standard
\* input, and ends the loop whatever the command is and however it ends; nothing
\* is processed after the loop has ended.
C14_OneShot ==
  /\ [](argc > 1 => /\ \E argv \in ArgVectors : Len(argv) = argc - 1 /\ Words(cmd) = argv
                    /\ pc = "read" => (token = <<>> /\ cout = Silent))
  /\ [][ /\ (IsPass /\ argc > 1) =>
              /\ pc = "read"
              /\ cmd' = cmd
              /\ token' = Words(cmd)[1]
              /\ pc' = "done"
         /\ pc = "done" =>
              (cmd' = cmd /\ token' = token /\ cout' = cout /\ pos' = pos /\ Hist' = Hist)
       ]_vars

\* the one pass of a run with the arguments move e2e5: the move is refused, the
\* loop has ended
C14_Witness ==
  /\ argc = 3
  /\ pc = "done"
  /\ token = W_move
  /\ cout.text = "Not a legal move"

\* C15: a line whose first token is no command, an empty line and a line of
\* white space included, is answered "Unknown command" with the line as it was
\* read; the board and the three histories stay as they were, and without
\* process arguments the loop goes on to the next line.
C15_UnknownEchoed ==
  [][ (IsPass /\ token' \notin Commands) =>
        /\ cout'.text = "Unknown command"
        /\ cout'.echo = cmd'
        /\ pos' = pos
        /\ Hist' = Hist
        /\ argc = 1 => pc' = "read"
    ]_vars

\* a line of white space read with two moves recorded
C15_Witness ==
  /\ cmd = <<" ", "\t">>
  /\ token = <<>>
  /\ cout.text = "Unknown command"
  /\ cout.echo = cmd
  /\ Len(PGN_vec) = 2
  /\ pc = "read"

\* the last command removed a move: removeLastMove ran on the histories h0
RemovedOne == token = W_removelastmove /\ h0.PGN /= <<>>

\* the last command refused a move: removeLastMove ran on the flat log h0.PGN
\* with the refused text appended, the structured history being h0.PGN_vec
RolledBack == token = W_move /\ cout.text = "Not a legal move"

\* the last command ran the extractions of pieceRaisingOutput on the histories
Extracted == (token = W_getpieceraise /\ PGN /= <<>>) \/ Accepted

\* C16 as stated: the session never aborts, and removeLastMove, getLastMove,
\* getLastMovedSquare and PGN_vec.back() run only when the flat log holds a full
\* 5-character record and the structured history is not empty.
C16_OpsOnlyOnRecords ==
  /\ pc /= "abort"
  /\ RemovedOne => (Len(h0.PGN) >= 5 /\ h0.PGN_vec /= <<>>)
  /\ RolledBack => (Len(h0.PGN) + 5 >= 5 /\ h0.PGN_vec /= <<>>)
  /\ Extracted => (Len(PGN) >= 5 /\ PGN_vec /= <<>>)

\* C16 amended: the session never aborts; removelastmove and the extractions of
\* pieceRaisingOutput run only when the flat log holds a full record and the
\* structured history is not empty, the flat log being empty exactly when the
\* structured history is; the rollback of a refused move removes the record just
\* appended, and runs whether or not the structured history is empty.
C16_NeverAborts ==
  /\ pc /= "abort"
  /\ (PGN = <<>>) = (PGN_vec = <<>>)
  /\ Len(PGN) % 5 = 0
  /\ ~pieceRaisingThrows(PGN, PGN_vec)
  /\ RemovedOne => (Len(h0.PGN) >= 5 /\ h0.PGN_vec /= <<>>)
  /\ RolledBack => (PGN = h0.PGN /\ PGN_command = h0.PGN_command)
  /\ Extracted => (Len(PGN) >= 5 /\ PGN_vec /= <<>> /\ cout.raise /= <<>>)

\* a move refused on a session whose histories are empty
C16_Witness ==
  /\ RolledBack
  /\ h0.PGN_vec = <<>>
  /\ PGN = <<>>
  /\ pc = "read"

\* the text names a pawn's advance along its file, now standing on the board
PawnAdvance(t) ==
  /\ t[1] = t[3]
  /\ SquareNamed(t, 3) /= SQ_NONE
  /\ type_of_piece(pos.board[SquareNamed(t, 3)]) = "P"

\* C17 as stated: an accepted move is recorded in the structured history in the
\* disambiguated notation of the rules engine; for a pawn's advance that is the
\* destination square alone, as in the listing 1. e4 after move e2e4.
C17_RecordsDisambiguated ==
  (Accepted /\ PawnAdvance(Arg(cmd))) =>
    /\ PGN_vec /= <<>>
    /\ PGN_vec[Len(PGN_vec)] = SubSeq(Arg(cmd), 3, 4)

\* C17 amended: an accepted move is recorded in the structured history as the
\* coordinate text UCI::move prints for it, which is the text of the command,
\* and the listing numbers the records from 1; the record of e2e4 on the
\* initial position is e2e4.
C17_RecordsCoordinate ==
  /\ Accepted =>
       /\ PGN_vec = Append(h0.PGN_vec, Arg(cmd))
       /\ cout.listing = <<[i \in 1 .. Len(PGN_vec) |-> <<i, PGN_vec[i]>>]>>
  /\ move(to_move(StartFEN, T_e2e4), FALSE) = T_e2e4

\* move h2h4 accepted on a fresh session: the listing is 1. h2h4
C17_Witness ==
  /\ Accepted
  /\ Arg(cmd) = T_h2h4
  /\ PawnAdvance(Arg(cmd))
  /\ cout.listing = << << <<1, T_h2h4>> >> >>

\* C18: whenever the loop is about to read a command, the session board is the
\* position that replaying the replay buffer from the initial position gives;
\* so it is right after removelastmove.
C18_BoardIsReplay ==
  pc = "read" => pos = parse_moves(StartFEN, Drop(PGN_command, Len(SetupPrefix)), <<>>, 1).pos

\* C19: the three histories list the same moves: the replay buffer is
\* "startpos moves " followed by the flat log, the flat log holds as many
\* 5-character records as the structured history holds records, the i-th
\* records of the two have the same destination square, and the grid printed
\* with a piece to raise marks the square printed as the piece to raise.
C19_HistoriesAgree ==
  /\ PGN_command = W_startpos \o SP \o W_moves \o SP \o PGN
  /\ Len(PGN) = 5 * Len(PGN_vec)
  /\ \A i \in 1 .. Len(PGN_vec) :
       SubSeq(PGN_vec[i], 3, 4) = SubSeq(PGN, 5 * (i - 1) + 3, 5 * (i - 1) + 4)
  /\ (cout.raise /= <<>> /\ PGN_vec /= <<>>) =>
       \A i \in 1 .. 8, j \in 1 .. 8 :
         (cout.raise[1].grid[i][j] = "#") =
           (<<FileChars[j], RankChars[9 - i]>> = cout.raise[1].square)

\* three moves recorded, the last one to g5: the grid marks g5
C19_Witness ==
  /\ Len(PGN_vec) = 3
  /\ Len(PGN) = 15
  /\ cout.raise /= <<>>
  /\ cout.raise[1].square = <<"g", "5">>
  /\ cout.raise[1].grid[4][7] = "#"

\* the board after the longest prefix of texts that is a sequence of legal moves
RECURSIVE Advance(_, _)
AdvanceBy(p, texts, named) ==
  IF named = {} THEN p
  ELSE Advance(do_move(p, CHOOSE m \in named : TRUE), Tail(texts))
Advance(p, texts) ==
  IF texts = <<>> THEN p ELSE AdvanceBy(p, texts, LegalNamed(p, Head(texts)))

\* the tokens t1 ... tn of the line startpos moves t1 ... tn
ListOf(is) == SubSeq(Words(is), 3, Len(Words(is)))

\* C20: position() given startpos moves t1 ... tn leaves the initial position
\* advanced by the longest prefix of t1 ... tn whose every token is a legal move
\* where it stands; the first token that is none, and every token after it, is
\* ignored, and so is the board it was handed.
C20_LongestLegalPrefix ==
  call.ret /= <<>> => call.ret[1] = Advance(StartFEN, ListOf(call.arg.is))

\* h2h4 e2e5 g7g5 on a board that is not the initial one: h2h4 alone is made
C20_Witness ==
  /\ call.ret /= <<>>
  /\ call.arg.pos /= StartFEN
  /\ ListOf(call.arg.is) = <<T_h2h4, T_e2e5, T_g7g5>>
  /\ call.ret[1] = do_move(StartFEN, to_move(StartFEN, T_h2h4))

\* every well-formed move from a square
MovesFrom(from) ==
  IF from = SQ_NONE THEN {}
  ELSE {make(T, from, to, KNIGHT) : T \in {NORMAL, ENPASSANT, CASTLING}, to \in Squares}
       \cup {make(PROMOTION, from, to, pt) : to \in Squares, pt \in KNIGHT .. QUEEN}

\* the legal moves of p whose text is s; the text of a move starts with the
\* square it is made from
HavingText(p, s) ==
  {m \in MovesFrom(SquareNamed(s, 1)) : move(m, is_chess960(p)) = s /\ legal(p, m)}

\* a text with its fifth character, if it has one, in lower case
LowerFifth(t) == [i \in 1 .. Len(t) |-> IF i = 5 /\ Len(t) = 5 THEN tolower(t[i]) ELSE t[i]]

ToMoveAnswers(m, having) ==
  /\ m /= MOVE_NULL
  /\ (m = MOVE_NONE) = (having = {})
  /\ m /= MOVE_NONE => m \in having

\* C21: UCI::to_move(p, t) returns a move other than MOVE_NONE only if it is a
\* legal move of p whose text, by UCI::move with the Chess960 flag of p, is t
\* with a fifth character lowercased; it returns MOVE_NONE exactly when no legal
\* move of p has that text, and never MOVE_NULL.
C21_ToMoveFindsLegalText ==
  call.ret /= <<>> =>
    ToMoveAnswers(call.ret[1], HavingText(call.arg.pos, LowerFifth(call.arg.str)))

\* h7g8Q where the pawn on h7 can take on g8: the promotion to a queen
C21_Witness ==
  /\ call.ret /= <<>>
  /\ call.arg.str = <<"h", "7", "g", "8", "Q">>
  /\ call.ret[1] = make(PROMOTION, SquareNamed(T_h7g8, 1), SquareNamed(T_h7g8, 3), QUEEN)

\* the number a string of binary digits writes, its first digit the most significant
RECURSIVE BinaryValue(_)
BinaryValue(ds) ==
  IF ds = <<>> THEN 0
  ELSE 2 * BinaryValue(SubSeq(ds, 1, Len(ds) - 1)) + (IF ds[Len(ds)] = "1" THEN 1 ELSE 0)

IsBinaryOf(ds, n) ==
  /\ \A i \in 1 .. Len(ds) : ds[i] \in {"0", "1"}
  /\ BinaryValue(ds) = n
  /\ ds /= <<>> => ds[1] = "1"
  /\ (ds = <<>>) = (n = 0)

\* C22: for n in 0..63, decToBinary(n) is the string of binary digits of n, most
\* significant first and without leading zeros; it is the empty string exactly
\* when n = 0, and that empty string is the binary output printed when the last
\* recorded move lands on a1.
C22_BinaryDigits ==
  /\ call.ret /= <<>> => IsBinaryOf(call.ret[1], call.arg)
  /\ pieceRaisingOutput(<<"b", "1", "a", "1", " ">>, <<<<"b", "1", "a", "1">>>>).decimal = 0
  /\ pieceRaisingOutput(<<"b", "1", "a", "1", " ">>, <<<<"b", "1", "a", "1">>>>).binary = <<>>

\* decToBinary(0) has returned the empty string
C22_Witness == call.fn = "decToBinary" /\ call.arg = 0 /\ call.ret = <<<<>>>>

\* the text names the squares of a promotion that is legal in p
Promoting(p, t) ==
  /\ Len(t) = 4
  /\ SquareNamed(t, 1) /= SQ_NONE
  /\ SquareNamed(t, 3) /= SQ_NONE
  /\ \E pt \in KNIGHT .. QUEEN :
       legal(p, make(PROMOTION, SquareNamed(t, 1), SquareNamed(t, 3), pt))

\* C23: move records no promotion: a 5-character text is answered "Invalid move
\* format" and the 4-character text of a legal promotion "Not a legal move",
\* the histories staying as they were; so every record of the structured
\* history has 4 characters and every record of the flat log 5.
C23_NoPromotionRecorded ==
  /\ [](/\ \A i \in 1 .. Len(PGN_vec) : Len(PGN_vec[i]) = 4
        /\ Len(PGN) = 5 * Len(PGN_vec))
  /\ [][ (IsPass /\ token' = W_move) =>
           /\ Len(Arg(cmd')) = 5 =>
                (cout'.text = "Invalid move format" /\ Hist' = Hist /\ pos' = pos)
           /\ Promoting(pos, Arg(cmd')) =>
                (cout'.text = "Not a legal move" /\ Hist' = Hist /\ pos' = pos)
       ]_vars

\* move h7g8 refused where the pawn on h7 can promote on g8
C23_Witness ==
  /\ token = W_move
  /\ Arg(cmd) = T_h7g8
  /\ Promoting(pos, T_h7g8)
  /\ cout.text = "Not a legal move"
  /\ Len(PGN_vec) = 8

\* where the word w first stands among the words ws, Len(ws) + 1 if nowhere
FirstAt(ws, w) ==
  IF \E i \in 1 .. Len(ws) : ws[i] = w
  THEN CHOOSE i \in 1 .. Len(ws) : ws[i] = w /\ \A j \in 1 .. i - 1 : ws[j] /= w
  ELSE Len(ws) + 1

\* the limits a list of options asks for: depth with its number, infinite, and
\* words that are no option
RECURSIVE Options(_, _)
Options(ws, l) ==
  IF ws = <<>> THEN l
  ELSE IF Head(ws) = W_depth
    THEN Options(SubSeq(ws, 3, Len(ws)), [l EXCEPT !.depth = DigitsValue(ws[2])])
  ELSE IF Head(ws) = W_infinite THEN Options(Tail(ws), [l EXCEPT !.infinite = 1])
  ELSE Options(Tail(ws), l)

GoAnswers(r, p, ws, k) ==
  /\ r.rootPos = p
  /\ r.ponderMode = FALSE
  /\ r.limits = [Options(SubSeq(ws, 1, k - 1), LimitsType) EXCEPT
                   !.searchmoves = [i \in 1 .. Len(ws) - k |-> to_move(p, ws[k + i])]]

\* C24: go() decodes every token after searchmoves, to the end of the line, as a
\* move text and appends it to limits.searchmoves, MOVE_NONE for a token that is
\* no legal move, and reads none of them as an option; before searchmoves a
\* token that is no option is skipped and changes no limit.
C24_SearchMovesToEndOfLine ==
  call.ret /= <<>> =>
    GoAnswers(call.ret[1], call.arg.pos, Words(call.arg.is),
              FirstAt(Words(call.arg.is), W_searchmoves))

\* foo depth 5 bar searchmoves e2e5 depth: depth 5, and two moves that are none
C24_Witness ==
  /\ call.ret /= <<>>
  /\ Words(call.arg.is) = <<U_foo, W_depth, <<"5">>, U_bar, W_searchmoves, T_e2e5, W_depth>>
  /\ call.ret[1].limits.depth = 5
  /\ call.ret[1].limits.infinite = 0
  /\ call.ret[1].limits.searchmoves = <<MOVE_NONE, MOVE_NONE>>
====
